---- MODULE Spec2Model ----
(***************************************************************************)
(* Concurrent snapshot publication pipeline of the Xbox controller monitor *)
(* (src/xbox_reader.cpp and src/XboxControllerInput.cpp).                  *)
(*                                                                         *)
(* Threads: main (acquisition loop), PipeThread (broadcast server), the    *)
(* console control handler thread, the forced-exit timer thread and the    *)
(* detached joiner thread (xbox_reader.cpp only).  The environment is the  *)
(* pipe client (consumer), the operating system (CreateNamedPipe and       *)
(* ConnectNamedPipe outcomes, spurious condition-variable wakeups), the    *)
(* user pressing Ctrl+C and the controller device.                         *)
(*                                                                         *)
(* Both source files are modelled by the same state machine; the variable  *)
(* `variant` records which of the two programs is running and selects the  *)
(* code that differs (ConsoleCtrlHandler and the end of main).             *)
(***************************************************************************)
EXTENDS Integers, FiniteSets, Sequences, TLC

\* At most this many pipe clients ever connect during a run.
MaxConsumers == 2

\* At most this many console control events (Ctrl+C) are delivered.
MaxCtrlC == 2

\* At most this many publishes are made while publishes are numbered.
MaxPublishes == 3

VARIABLES
    variant,       \* "reader" (xbox_reader.cpp) or "xci" (XboxControllerInput.cpp)
    proc,          \* process state: "running" or the way it ended
    g_running,     \* std::atomic<bool> g_running
    g_latestJson,  \* std::string g_latestJson (the cell)
    mutexOwner,    \* owner of g_jsonMutex: "none", "main" or "pipe"
    pcMain,        \* position of the main thread
    js,            \* main's local std::string js / json
    state,         \* main's local State state (the values FormatState renders)
    raw,           \* pad.sThumbLX as read by the last poll (SHORT)
    pollConnected, \* res == ERROR_SUCCESS of the last poll
    pcPipe,        \* position of PipeThread
    hPipe,         \* PipeThread's local HANDLE hPipe
    lkOwns,        \* whether PipeThread's unique_lock lk owns g_jsonMutex
    snapshot,      \* PipeThread's local std::string snapshot
    pcHandler,     \* position of the ConsoleCtrlHandler thread
    timerArmed,    \* a forced-exit timer thread is sleeping
    pcJoiner,      \* position of the detached joiner thread
    consumer,      \* the pipe client: "absent", "reading", "hung", "gone"
    arrivals,      \* number of clients that have connected so far
    ctrlEvents,    \* number of control events delivered so far
    \* history variables (not program state)
    lastPublished, \* value stored by the most recent completed publish
    missed,        \* publishes since PipeThread's last copy: "none", "one", "many"
    skipped,       \* the last copy skipped at least one intermediate publish
    snapArrival,   \* value of `arrivals` when `snapshot` was copied
    wfail,         \* a WriteFile call of the current session has failed
    shutdownInWait,\* g_running was set false while PipeThread was blocked in wait
    draining,      \* PipeThread saw g_running false inside the streaming loop
    lastMsg,       \* bytes handed to WriteFile for the message in progress
    tickStores,    \* assignments to g_latestJson in the current tick
    tickNotifies,  \* notify_all calls of the current tick
    pubsAfterStop, \* publishes the loop has made since g_running became false
                   \* ("none", "one", "many"; "none" again once the loop is left)
    numbered,      \* publishes are being numbered (history, fixed at start)
    pubNo,         \* number of publishes made so far
    cellNo,        \* number of the publish whose text g_latestJson holds
    snapNo,        \* number of the publish whose text snapshot holds
    sentNo         \* number of the publish of the last message fully written

vars == << variant, proc, g_running, g_latestJson, mutexOwner, pcMain, js,
           state, raw, pollConnected,
           pcPipe, hPipe, lkOwns, snapshot, pcHandler, timerArmed, pcJoiner,
           consumer, arrivals, ctrlEvents, lastPublished, missed, skipped,
           snapArrival, wfail, shutdownInWait, draining, lastMsg,
           tickStores, tickNotifies, pubsAfterStop,
           numbered, pubNo, cellNo, snapNo, sentNo >>

pollVars    == << state, raw, pollConnected >>
mainVars    == << pcMain, js, pollVars >>
pipeVars    == << pcPipe, hPipe, lkOwns, snapshot >>
handlerVars == << pcHandler, timerArmed >>
envVars     == << consumer, arrivals, ctrlEvents >>
coreHist    == << lastPublished, missed, skipped, snapArrival, wfail,
                  shutdownInWait, draining >>
tickHist    == << tickStores, tickNotifies, pubsAfterStop >>
orderHist   == << numbered, pubNo, cellNo, snapNo, sentNo >>
histVars    == << coreHist, lastMsg, tickHist, orderHist >>

Variants == {"reader", "xci"}

-----------------------------------------------------------------------------
(* the controller state, its normalisation and its JSON text *)

\* range of SHORT, the type of the raw thumb-stick values
ShortMin == -32768
ShortMax == 32767

\* the fourteen buttons in the order the JSON text lists them
ButtonOrder == << "A", "B", "X", "Y", "LB", "RB", "Back", "Start", "LS", "RS",
                  "DpadUp", "DpadDown", "DpadLeft", "DpadRight" >>

ButtonNames == { ButtonOrder[i] : i \in 1..Len(ButtonOrder) }

\* the XInput bit each button is decoded from; wButtons is modelled as the
\* set of bits that are set
ButtonMask ==
    [ A |-> "XINPUT_GAMEPAD_A", B |-> "XINPUT_GAMEPAD_B",
      X |-> "XINPUT_GAMEPAD_X", Y |-> "XINPUT_GAMEPAD_Y",
      LB |-> "XINPUT_GAMEPAD_LEFT_SHOULDER",
      RB |-> "XINPUT_GAMEPAD_RIGHT_SHOULDER",
      Back |-> "XINPUT_GAMEPAD_BACK", Start |-> "XINPUT_GAMEPAD_START",
      LS |-> "XINPUT_GAMEPAD_LEFT_THUMB", RS |-> "XINPUT_GAMEPAD_RIGHT_THUMB",
      DpadUp |-> "XINPUT_GAMEPAD_DPAD_UP",
      DpadDown |-> "XINPUT_GAMEPAD_DPAD_DOWN",
      DpadLeft |-> "XINPUT_GAMEPAD_DPAD_LEFT",
      DpadRight |-> "XINPUT_GAMEPAD_DPAD_RIGHT" ]

\* XINPUT_GAMEPAD after XINPUT_STATE xstate{} / ZeroMemory
ZeroPad ==
    [ wButtons |-> {}, bLeftTrigger |-> 0, bRightTrigger |-> 0,
      sThumbLX |-> 0, sThumbLY |-> 0, sThumbRX |-> 0, sThumbRY |-> 0 ]

\* a controller in use: buttons held, triggers pulled, sticks at both ends
\* of the SHORT range and in between
BusyPad ==
    [ wButtons |-> {"XINPUT_GAMEPAD_A", "XINPUT_GAMEPAD_DPAD_LEFT"},
      bLeftTrigger |-> 255, bRightTrigger |-> 51,
      sThumbLX |-> ShortMax, sThumbLY |-> ShortMin,
      sThumbRX |-> -8192, sThumbRY |-> 0 ]

\* the gamepad contents XInputGetState can deliver to a tick
PadSamples == { BusyPad }

RECURSIVE GCD(_, _)
GCD(a, b) == IF b = 0 THEN a ELSE GCD(b, a % b)

\* the exact value n/d (d > 0) in lowest terms, as << numerator, denominator >>
Ratio(n, d) ==
    LET g == GCD(IF n < 0 THEN -n ELSE n, d)
    IN  << n \div g, d \div g >>

\* Mutant of normThumb: one divisor for both signs.
normThumb_Symmetric(v) == Ratio(v, 32768)

\* return (v >= 0) ? (double)v / 32767.0 : (double)v / 32768.0
normThumb(v) == IF v >= 0 THEN Ratio(v, 32767) ELSE Ratio(v, 32768)

\* return (double)v / 255.0
normTrig(v) == Ratio(v, 255)

\* IControllerInput::State with its default member initialisers
ZeroState ==
    [ connected |-> FALSE,
      buttons   |-> [ b \in ButtonNames |-> FALSE ],
      triggers  |-> [ LT |-> Ratio(0, 1), RT |-> Ratio(0, 1) ],
      sticks    |-> [ LX |-> Ratio(0, 1), LY |-> Ratio(0, 1),
                      RX |-> Ratio(0, 1), RY |-> Ratio(0, 1) ] ]

\* the decoded buttons and normalised axes of a gamepad
PadValues(connected, g) ==
    [ connected |-> connected,
      buttons   |-> [ b \in ButtonNames |-> ButtonMask[b] \in g.wButtons ],
      triggers  |-> [ LT |-> normTrig(g.bLeftTrigger),
                      RT |-> normTrig(g.bRightTrigger) ],
      sticks    |-> [ LX |-> normThumb(g.sThumbLX), LY |-> normThumb(g.sThumbLY),
                      RX |-> normThumb(g.sThumbRX), RY |-> normThumb(g.sThumbRY) ] ]

\* Mutant of FreshState: the tick's State object is the previous tick's.
FreshState_Reused(prev) == prev

\* IControllerInput::State state{} at the top of each tick
FreshState(prev) == ZeroState

\* XInputController::poll(state): the fields are written only when connected
poll(s, connected, pad) ==
    IF connected THEN PadValues(TRUE, pad)
                 ELSE [ s EXCEPT !.connected = FALSE ]

\* XboxControllerInput.cpp: XInputGetState, ZeroMemory when not connected,
\* and the values FormatState derives from the struct
XciPoll(connected, pad) ==
    PadValues(connected, IF connected THEN pad ELSE ZeroPad)

\* the line-feed byte
NL == "\n"

\* operator<< of a bool / of the int returned by bit()
Bit(b) == IF b THEN "1" ELSE "0"

\* (connected ? "true" : "false")
Bool(b) == IF b THEN "true" ELSE "false"

\* std::fixed with setprecision(6) applied to the value r
Fixed6(r) ==
    LET a    == IF r[1] < 0 THEN -r[1] ELSE r[1]
        q    == (a * 2000000 + r[2]) \div (2 * r[2])
        f    == q % 1000000
        lead == IF f < 10 THEN "00000"
                ELSE IF f < 100 THEN "0000"
                ELSE IF f < 1000 THEN "000"
                ELSE IF f < 10000 THEN "00"
                ELSE IF f < 100000 THEN "0" ELSE ""
    IN  (IF r[1] < 0 THEN "-" ELSE "") \o ToString(q \div 1000000) \o "."
        \o lead \o ToString(f)

\* "\"A\":" << buttons.A << sep ... << "\"DpadRight\":" << buttons.DpadRight
RECURSIVE ButtonText(_, _, _)
ButtonText(b, i, sep) ==
    IF i > Len(ButtonOrder) THEN ""
    ELSE "\"" \o ButtonOrder[i] \o "\":" \o Bit(b[ButtonOrder[i]])
         \o (IF i < Len(ButtonOrder) THEN sep ELSE "")
         \o ButtonText(b, i + 1, sep)

\* A text is kept as the sequence of its line-feed bytes and of the
\* line-feed-free stretches between them.

\* xbox_reader.cpp BuildJson: the JSON text of a state
BuildJson(st) ==
    << "{" \o "\"connected\":" \o Bool(st.connected) \o ","
       \o "\"buttons\":{" \o ButtonText(st.buttons, 1, ",") \o "},"
       \o "\"triggers\":{\"LT\":" \o Fixed6(st.triggers.LT)
       \o ",\"RT\":" \o Fixed6(st.triggers.RT) \o "},"
       \o "\"sticks\":{\"LX\":" \o Fixed6(st.sticks.LX)
       \o ",\"LY\":" \o Fixed6(st.sticks.LY)
       \o ",\"RX\":" \o Fixed6(st.sticks.RX)
       \o ",\"RY\":" \o Fixed6(st.sticks.RY) \o "}"
       \o "}" >>

\* XboxControllerInput.cpp FormatState, outJson: the same members, laid out
\* over several lines
FormatState(st) ==
    << "{", NL,
       "  \"connected\": " \o Bool(st.connected) \o ",", NL,
       "  \"buttons\": {" \o ButtonText(st.buttons, 1, ", ") \o "},", NL,
       "  \"triggers\": {\"LT\": " \o Fixed6(st.triggers.LT)
       \o ", \"RT\": " \o Fixed6(st.triggers.RT) \o "},", NL,
       "  \"sticks\": {\"LX\": " \o Fixed6(st.sticks.LX)
       \o ", \"LY\": " \o Fixed6(st.sticks.LY)
       \o ", \"RX\": " \o Fixed6(st.sticks.RX)
       \o ", \"RY\": " \o Fixed6(st.sticks.RY) \o "}", NL,
       "}", NL >>

\* the state a tick of the given program ends up with
PollState(v, prev, connected, pad) ==
    IF v = "reader" THEN poll(FreshState(prev), connected, pad)
                    ELSE XciPoll(connected, pad)

\* the JSON text the given program builds from it
JsonText(v, st) == IF v = "reader" THEN BuildJson(st) ELSE FormatState(st)

\* number of line-feed bytes in a text
CountNL(text) == Cardinality({ i \in 1..Len(text) : text[i] = NL })

\* g_jsonCv.notify_all(): a thread blocked in g_jsonCv.wait becomes runnable
\* (it still has to reacquire the mutex). Only PipeThread ever waits.
NotifyAll(p) == IF p = "cvBlocked" THEN "cvWoken" ELSE p

Alive == proc = "running"

\* everything but the position of main and the raw stick value
InitRest ==
    /\ variant \in Variants
    /\ proc = "running"
    /\ g_running = TRUE
    /\ g_latestJson = << >>
    /\ mutexOwner = "none"
    /\ js = << >>
    /\ state = ZeroState
    /\ pollConnected = FALSE
    /\ pcPipe = "for"
    /\ hPipe = "none"
    /\ lkOwns = FALSE
    /\ snapshot = << >>
    /\ pcHandler = "idle"
    /\ timerArmed = FALSE
    /\ pcJoiner = "none"
    /\ consumer = "absent"
    /\ arrivals = 0
    /\ ctrlEvents = 0
    /\ lastPublished = << >>
    /\ missed = "none"
    /\ skipped = FALSE
    /\ snapArrival = 0
    /\ wfail = FALSE
    /\ shutdownInWait = FALSE
    /\ draining = FALSE
    /\ lastMsg = << >>
    /\ tickStores = 0
    /\ tickNotifies = 0
    /\ pubsAfterStop = "none"
    /\ pubNo = 0
    /\ cellNo = 0
    /\ snapNo = 0
    /\ sentNo = 0

Init ==
    /\ InitRest
    /\ pcMain = "loop"
    /\ raw = 0
    /\ numbered = FALSE


-----------------------------------------------------------------------------
(* main: the acquisition loop *)

\* Mutant of MainLoopCheck: the loop test ignores the running flag.
MainLoopCheck_Forever ==
    /\ Alive /\ pcMain = "loop"
    /\ pcMain' = "poll"
    /\ tickStores' = 0
    /\ tickNotifies' = 0
    /\ UNCHANGED << variant, proc, g_running, g_latestJson, mutexOwner, js,
                    pollVars, pipeVars, handlerVars, pcJoiner, envVars,
                    coreHist, lastMsg, orderHist, pubsAfterStop >>

\* while (g_running.load())
MainLoopCheck ==
    /\ Alive /\ pcMain = "loop"
    /\ pcMain' = IF g_running THEN "poll"
                 ELSE IF variant = "reader" THEN "store" ELSE "notify2"
    /\ tickStores' = 0
    /\ tickNotifies' = 0
    /\ pubsAfterStop' = IF g_running THEN pubsAfterStop ELSE "none"
    /\ UNCHANGED << variant, proc, g_running, g_latestJson, mutexOwner, js,
                    pollVars, pipeVars, handlerVars, pcJoiner, envVars,
                    coreHist, lastMsg, orderHist >>

\* poll the controller, build the frame and the JSON text, write the console
MainPoll ==
    /\ Alive /\ pcMain = "poll"
    /\ numbered => pubNo < MaxPublishes
    /\ \E connected \in BOOLEAN, pad \in PadSamples :
          /\ pollConnected' = connected
          /\ raw' = IF connected THEN pad.sThumbLX ELSE 0
          /\ state' = PollState(variant, state, connected, pad)
    /\ js' = JsonText(variant, state')
    /\ pcMain' = "lock"
    /\ UNCHANGED << variant, proc, g_running, g_latestJson, mutexOwner,
                    pipeVars, handlerVars, pcJoiner, envVars, histVars >>

\* Mutant of MainLock: main enters its critical section without waiting for
\* the mutex to be free.
MainLock_NoWait ==
    /\ Alive /\ pcMain = "lock"
    /\ mutexOwner' = IF mutexOwner = "none" THEN "main" ELSE mutexOwner
    /\ pcMain' = "assign"
    /\ UNCHANGED << variant, proc, g_running, g_latestJson, js, pollVars,
                    pipeVars, handlerVars, pcJoiner, envVars, histVars >>

\* std::lock_guard<std::mutex> lk(g_jsonMutex)
MainLock ==
    /\ Alive /\ pcMain = "lock"
    /\ mutexOwner = "none"
    /\ mutexOwner' = "main"
    /\ pcMain' = "assign"
    /\ UNCHANGED << variant, proc, g_running, g_latestJson, js, pollVars,
                    pipeVars, handlerVars, pcJoiner, envVars, histVars >>

\* Mutant of MainAssign: change-triggered publication, the cell is written
\* only when the new text differs from the one it holds.
MainAssign_OnlyOnChange ==
    /\ Alive /\ pcMain = "assign"
    /\ g_latestJson' = js
    /\ lastPublished' = js
    /\ missed' = IF js = g_latestJson THEN missed
                 ELSE IF missed = "none" THEN "one" ELSE "many"
    /\ tickStores' = IF js = g_latestJson THEN tickStores ELSE tickStores + 1
    /\ pubsAfterStop' = IF g_running \/ js = g_latestJson THEN pubsAfterStop
                        ELSE IF pubsAfterStop = "none" THEN "one" ELSE "many"
    /\ pubNo' = IF numbered THEN pubNo + 1 ELSE pubNo
    /\ cellNo' = pubNo'
    /\ pcMain' = "unlock"
    /\ UNCHANGED << variant, proc, g_running, mutexOwner, js, pollVars,
                    pipeVars, handlerVars, pcJoiner, envVars,
                    skipped, snapArrival, wfail, shutdownInWait, draining,
                    lastMsg, numbered, snapNo, sentNo, tickNotifies >>

\* g_latestJson = js
MainAssign ==
    /\ Alive /\ pcMain = "assign"
    /\ g_latestJson' = js
    /\ lastPublished' = js
    /\ missed' = IF missed = "none" THEN "one" ELSE "many"
    /\ tickStores' = tickStores + 1
    /\ pubsAfterStop' = IF g_running THEN pubsAfterStop
                        ELSE IF pubsAfterStop = "none" THEN "one" ELSE "many"
    /\ pubNo' = IF numbered THEN pubNo + 1 ELSE pubNo
    /\ cellNo' = pubNo'
    /\ pcMain' = "unlock"
    /\ UNCHANGED << variant, proc, g_running, mutexOwner, js, pollVars,
                    pipeVars, handlerVars, pcJoiner, envVars,
                    skipped, snapArrival, wfail, shutdownInWait, draining,
                    lastMsg, numbered, snapNo, sentNo, tickNotifies >>

\* end of the lock_guard's scope
MainUnlock ==
    /\ Alive /\ pcMain = "unlock"
    /\ mutexOwner' = "none"
    /\ pcMain' = "notify"
    /\ UNCHANGED << variant, proc, g_running, g_latestJson, js, pollVars,
                    pipeVars, handlerVars, pcJoiner, envVars, histVars >>

\* Mutant of MainNotify: the tick publishes without notifying.
MainNotify_Omitted ==
    /\ Alive /\ pcMain = "notify"
    /\ tickNotifies' = tickNotifies + 1
    /\ pcMain' = "sleep"
    /\ UNCHANGED << variant, proc, g_running, g_latestJson, mutexOwner, js,
                    pollVars, pipeVars, handlerVars, pcJoiner, envVars,
                    coreHist, lastMsg, orderHist, tickStores, pubsAfterStop >>

\* g_jsonCv.notify_all() of the tick
MainNotify ==
    /\ Alive /\ pcMain = "notify"
    /\ pcPipe' = NotifyAll(pcPipe)
    /\ tickNotifies' = tickNotifies + 1
    /\ pcMain' = "sleep"
    /\ UNCHANGED << variant, proc, g_running, g_latestJson, mutexOwner, js,
                    pollVars, hPipe, lkOwns, snapshot, handlerVars, pcJoiner,
                    envVars, coreHist, lastMsg, orderHist, tickStores,
                    pubsAfterStop >>

\* std::this_thread::sleep_for(interval)
MainSleep ==
    /\ Alive /\ pcMain = "sleep"
    /\ pcMain' = "loop"
    /\ UNCHANGED << variant, proc, g_running, g_latestJson, mutexOwner, js,
                    pollVars, pipeVars, handlerVars, pcJoiner, envVars,
                    histVars >>

\* xbox_reader.cpp: g_running.store(false) after the loop
MainStore ==
    /\ Alive /\ pcMain = "store"
    /\ g_running' = FALSE
    /\ pcMain' = "notify2"
    /\ UNCHANGED << variant, proc, g_latestJson, mutexOwner, js, pollVars,
                    pipeVars, handlerVars, pcJoiner, envVars, histVars >>

\* g_jsonCv.notify_all() after the loop
MainNotify2 ==
    /\ Alive /\ pcMain = "notify2"
    /\ pcPipe' = NotifyAll(pcPipe)
    /\ pcMain' = IF variant = "reader" THEN "spawnJoiner" ELSE "join"
    /\ UNCHANGED << variant, proc, g_running, g_latestJson, mutexOwner, js,
                    pollVars, hPipe, lkOwns, snapshot, handlerVars, pcJoiner,
                    envVars, histVars >>

\* xbox_reader.cpp: controller shutdown, then
\* std::thread([&pipeThr]{ pipeThr.join(); }).detach()
MainSpawnJoiner ==
    /\ Alive /\ pcMain = "spawnJoiner"
    /\ pcJoiner' = "join"
    /\ pcMain' = "finish"
    /\ UNCHANGED << variant, proc, g_running, g_latestJson, mutexOwner, js,
                    pollVars, pipeVars, handlerVars, envVars, histVars >>

\* xbox_reader.cpp: console clean-up, then ExitProcess(0) when the shutdown
\* took longer than the timeout, else return 0.  Returning destroys pipeThr:
\* a std::thread that is still joinable calls std::terminate; while the
\* joiner is inside pipeThr.join() the destructor races with it, so either
\* outcome is possible.
MainFinish ==
    /\ Alive /\ pcMain = "finish"
    /\ \/ proc' = "exit_main"
       \/ /\ pcJoiner = "done"
          /\ proc' = "returned"
       \/ /\ pcJoiner = "join"
          /\ proc' \in {"terminate_main", "returned"}
    /\ pcMain' = "end"
    /\ UNCHANGED << variant, g_running, g_latestJson, mutexOwner, js, pollVars,
                    pipeVars, handlerVars, pcJoiner, envVars, histVars >>

\* XboxControllerInput.cpp: if (pipeThr.joinable()) pipeThr.join()
MainJoin ==
    /\ Alive /\ pcMain = "join"
    /\ pcPipe = "done"
    /\ pcMain' = "return"
    /\ UNCHANGED << variant, proc, g_running, g_latestJson, mutexOwner, js,
                    pollVars, pipeVars, handlerVars, pcJoiner, envVars,
                    histVars >>

\* XboxControllerInput.cpp: printf("\nExiting...\n"); return 0
MainReturn ==
    /\ Alive /\ pcMain = "return"
    /\ proc' = "returned"
    /\ pcMain' = "end"
    /\ UNCHANGED << variant, g_running, g_latestJson, mutexOwner, js, pollVars,
                    pipeVars, handlerVars, pcJoiner, envVars, histVars >>

\* the detached joiner thread of xbox_reader.cpp: pipeThr.join()
JoinerJoin ==
    /\ Alive /\ pcJoiner = "join"
    /\ pcPipe = "done"
    /\ pcJoiner' = "done"
    /\ UNCHANGED << variant, proc, g_running, g_latestJson, mutexOwner,
                    mainVars, pipeVars, handlerVars, envVars, histVars >>

MainNext ==
    \/ MainLoopCheck \/ MainPoll \/ MainLock \/ MainAssign \/ MainUnlock
    \/ MainNotify \/ MainSleep \/ MainStore \/ MainNotify2
    \/ MainSpawnJoiner \/ MainFinish \/ MainJoin \/ MainReturn

-----------------------------------------------------------------------------
(* ConsoleCtrlHandler and the forced-exit timer *)

\* The user presses Ctrl+C (or closes the console): the system runs
\* ConsoleCtrlHandler on a new thread.
CtrlC ==
    /\ Alive /\ pcHandler = "idle"
    /\ ctrlEvents < MaxCtrlC
    /\ ctrlEvents' = ctrlEvents + 1
    /\ pcHandler' = "store"
    /\ UNCHANGED << variant, proc, g_running, g_latestJson, mutexOwner,
                    mainVars, pipeVars, timerArmed, pcJoiner, consumer,
                    arrivals, histVars >>

\* Mutant of HandlerStore: the handler does not recognise the control event
\* and returns FALSE without signalling shutdown.
HandlerStore_NotHandled ==
    /\ Alive /\ pcHandler = "store"
    /\ pcHandler' = "idle"
    /\ UNCHANGED << variant, proc, g_running, g_latestJson, mutexOwner,
                    mainVars, pipeVars, timerArmed, pcJoiner, envVars,
                    histVars >>

\* g_running.store(false) / g_running = false
HandlerStore ==
    /\ Alive /\ pcHandler = "store"
    /\ g_running' = FALSE
    /\ shutdownInWait' = (shutdownInWait \/ pcPipe = "cvBlocked")
    /\ pcHandler' = "notify"
    /\ UNCHANGED << variant, proc, g_latestJson, mutexOwner, mainVars,
                    pipeVars, timerArmed, pcJoiner, envVars, lastPublished,
                    lastMsg, tickHist, orderHist, missed, skipped, snapArrival,
                    wfail, draining >>

\* g_jsonCv.notify_all()
HandlerNotify ==
    /\ Alive /\ pcHandler = "notify"
    /\ pcPipe' = NotifyAll(pcPipe)
    /\ pcHandler' = IF variant = "reader" THEN "spawn" ELSE "idle"
    /\ UNCHANGED << variant, proc, g_running, g_latestJson, mutexOwner,
                    mainVars, hPipe, lkOwns, snapshot, timerArmed, pcJoiner,
                    envVars, histVars >>

\* xbox_reader.cpp: std::thread([]{ Sleep(500); ExitProcess(0); }).detach()
HandlerSpawnTimer ==
    /\ Alive /\ pcHandler = "spawn"
    /\ timerArmed' = TRUE
    /\ pcHandler' = "idle"
    /\ UNCHANGED << variant, proc, g_running, g_latestJson, mutexOwner,
                    mainVars, pipeVars, pcJoiner, envVars, histVars >>

\* the timer thread: Sleep(500); ExitProcess(0)
TimerFire ==
    /\ Alive /\ timerArmed
    /\ proc' = "exit_timer"
    /\ UNCHANGED << variant, g_running, g_latestJson, mutexOwner, mainVars,
                    pipeVars, handlerVars, pcJoiner, envVars, histVars >>

HandlerNext == HandlerStore \/ HandlerNotify \/ HandlerSpawnTimer

-----------------------------------------------------------------------------
(* PipeThread: the broadcast server *)

\* Mutant of PipeForCheck: for (;;), the running flag is not read.
PipeForCheck_Forever ==
    /\ Alive /\ pcPipe = "for"
    /\ pcPipe' = "create"
    /\ UNCHANGED << variant, proc, g_running, g_latestJson, mutexOwner,
                    mainVars, hPipe, lkOwns, snapshot, handlerVars, pcJoiner,
                    envVars, histVars >>

\* for (; g_running.load(); )
PipeForCheck ==
    /\ Alive /\ pcPipe = "for"
    /\ pcPipe' = IF g_running THEN "create" ELSE "done"
    /\ UNCHANGED << variant, proc, g_running, g_latestJson, mutexOwner,
                    mainVars, hPipe, lkOwns, snapshot, handlerVars, pcJoiner,
                    envVars, histVars >>

\* Mutant of PipeCreate: the INVALID_HANDLE_VALUE test is missing.
PipeCreate_Unchecked ==
    /\ Alive /\ pcPipe = "create"
    /\ hPipe' \in {"open", "invalid"}
    /\ pcPipe' = "connect"
    /\ UNCHANGED << variant, proc, g_running, g_latestJson, mutexOwner,
                    mainVars, lkOwns, snapshot, handlerVars, pcJoiner,
                    envVars, histVars >>

\* HANDLE hPipe = CreateNamedPipeA(...); if (hPipe == INVALID_HANDLE_VALUE)
PipeCreate ==
    /\ Alive /\ pcPipe = "create"
    /\ \/ hPipe' = "open"    /\ pcPipe' = "connect"
       \/ hPipe' = "invalid" /\ pcPipe' = "backoff"
    /\ UNCHANGED << variant, proc, g_running, g_latestJson, mutexOwner,
                    mainVars, lkOwns, snapshot, handlerVars, pcJoiner,
                    envVars, histVars >>

\* std::this_thread::sleep_for(250 ms); continue
PipeBackoff ==
    /\ Alive /\ pcPipe = "backoff"
    /\ pcPipe' = "for"
    /\ UNCHANGED << variant, proc, g_running, g_latestJson, mutexOwner,
                    mainVars, hPipe, lkOwns, snapshot, handlerVars, pcJoiner,
                    envVars, histVars >>

\* ConnectNamedPipe(hPipe, nullptr) returns because a client connected
\* (TRUE, or FALSE with ERROR_PIPE_CONNECTED). The call blocks until then.
ConsumerConnects ==
    /\ Alive /\ pcPipe = "connect"
    /\ arrivals < MaxConsumers
    /\ arrivals' = arrivals + 1
    /\ consumer' = "reading"
    /\ missed' = "none"
    /\ pcPipe' = "lock"
    /\ UNCHANGED << variant, proc, g_running, g_latestJson, mutexOwner,
                    mainVars, hPipe, lkOwns, snapshot, handlerVars, pcJoiner,
                    ctrlEvents, lastPublished, lastMsg, tickHist, orderHist,
                    skipped, snapArrival, wfail, shutdownInWait, draining >>

\* ConnectNamedPipe fails with another error: if (!connected) { ...
ConnectFails ==
    /\ Alive /\ pcPipe = "connect"
    /\ pcPipe' = "closeFailed"
    /\ UNCHANGED << variant, proc, g_running, g_latestJson, mutexOwner,
                    mainVars, hPipe, lkOwns, snapshot, handlerVars, pcJoiner,
                    envVars, histVars >>

\* ... CloseHandle(hPipe); continue; }
PipeCloseFailed ==
    /\ Alive /\ pcPipe = "closeFailed"
    /\ hPipe' = "closed"
    /\ pcPipe' = "for"
    /\ UNCHANGED << variant, proc, g_running, g_latestJson, mutexOwner,
                    mainVars, lkOwns, snapshot, handlerVars, pcJoiner,
                    envVars, histVars >>

\* std::unique_lock<std::mutex> lk(g_jsonMutex)
PipeLock ==
    /\ Alive /\ pcPipe = "lock"
    /\ mutexOwner = "none"
    /\ mutexOwner' = "pipe"
    /\ lkOwns' = TRUE
    /\ pcPipe' = "while"
    /\ UNCHANGED << variant, proc, g_running, g_latestJson, mainVars, hPipe,
                    snapshot, handlerVars, pcJoiner, envVars, histVars >>

\* while (g_running.load())
PipeWhileCheck ==
    /\ Alive /\ pcPipe = "while"
    /\ pcPipe' = IF g_running THEN "wait" ELSE "unlockEnd"
    /\ draining' = (draining \/ ~g_running)
    /\ UNCHANGED << variant, proc, g_running, g_latestJson, mutexOwner,
                    mainVars, hPipe, lkOwns, snapshot, handlerVars, pcJoiner,
                    envVars, lastPublished, lastMsg, tickHist, orderHist,
                    missed, skipped, snapArrival, wfail, shutdownInWait >>

\* g_jsonCv.wait(lk): release the mutex and block
PipeWait ==
    /\ Alive /\ pcPipe = "wait"
    /\ mutexOwner' = "none"
    /\ pcPipe' = "cvBlocked"
    /\ UNCHANGED << variant, proc, g_running, g_latestJson, mainVars, hPipe,
                    lkOwns, snapshot, handlerVars, pcJoiner, envVars,
                    histVars >>

\* g_jsonCv.wait(lk) may return without any notification
SpuriousWake ==
    /\ Alive /\ pcPipe = "cvBlocked"
    /\ pcPipe' = "cvWoken"
    /\ UNCHANGED << variant, proc, g_running, g_latestJson, mutexOwner,
                    mainVars, hPipe, lkOwns, snapshot, handlerVars, pcJoiner,
                    envVars, histVars >>

\* g_jsonCv.wait(lk): reacquire the mutex before returning
PipeWake ==
    /\ Alive /\ pcPipe = "cvWoken"
    /\ mutexOwner = "none"
    /\ mutexOwner' = "pipe"
    /\ pcPipe' = "check"
    /\ UNCHANGED << variant, proc, g_running, g_latestJson, mainVars, hPipe,
                    lkOwns, snapshot, handlerVars, pcJoiner, envVars,
                    histVars >>

\* Mutant of PipeCheck: the running flag is not read again after the wait.
PipeCheck_NoBreak ==
    /\ Alive /\ pcPipe = "check"
    /\ pcPipe' = "copy"
    /\ UNCHANGED << variant, proc, g_running, g_latestJson, mutexOwner,
                    mainVars, hPipe, lkOwns, snapshot, handlerVars, pcJoiner,
                    envVars, histVars >>

\* if (!g_running.load()) break
PipeCheck ==
    /\ Alive /\ pcPipe = "check"
    /\ pcPipe' = IF g_running THEN "copy" ELSE "unlockEnd"
    /\ draining' = (draining \/ ~g_running)
    /\ UNCHANGED << variant, proc, g_running, g_latestJson, mutexOwner,
                    mainVars, hPipe, lkOwns, snapshot, handlerVars, pcJoiner,
                    envVars, lastPublished, lastMsg, tickHist, orderHist,
                    missed, skipped, snapArrival, wfail, shutdownInWait >>

\* Mutant of PipeCopy: the text sent is the one taken before the wait, the
\* cell is not read again.
PipeCopy_Stale ==
    /\ Alive /\ pcPipe = "copy"
    /\ snapshot' = snapshot
    /\ snapArrival' = arrivals
    /\ skipped' = (missed = "many")
    /\ missed' = "none"
    /\ mutexOwner' = "none"
    /\ lkOwns' = FALSE
    /\ lastMsg' = << >>
    /\ snapNo' = snapNo
    /\ pcPipe' = "write1"
    /\ UNCHANGED << variant, proc, g_running, g_latestJson, mainVars, hPipe,
                    handlerVars, pcJoiner, envVars, lastPublished, tickHist,
                    numbered, pubNo, cellNo, sentNo, wfail, shutdownInWait,
                    draining >>

\* Mutant of PipeCopy: the texts of the cell and of snapshot are exchanged
\* (std::swap) instead of the cell being copied.
PipeCopy_Swap ==
    /\ Alive /\ pcPipe = "copy"
    /\ snapshot' = g_latestJson
    /\ g_latestJson' = snapshot
    /\ cellNo' = snapNo
    /\ snapArrival' = arrivals
    /\ skipped' = (missed = "many")
    /\ missed' = "none"
    /\ mutexOwner' = "none"
    /\ lkOwns' = FALSE
    /\ lastMsg' = << >>
    /\ snapNo' = cellNo
    /\ pcPipe' = "write1"
    /\ UNCHANGED << variant, proc, g_running, mainVars, hPipe, handlerVars,
                    pcJoiner, envVars, lastPublished, tickHist, numbered,
                    pubNo, sentNo, wfail, shutdownInWait, draining >>

\* Mutant of PipeCopy: the snapshot is copied but lk is not unlocked before
\* the writes.
PipeCopy_KeepLock ==
    /\ Alive /\ pcPipe = "copy"
    /\ snapshot' = g_latestJson
    /\ snapArrival' = arrivals
    /\ skipped' = (missed = "many")
    /\ missed' = "none"
    /\ lastMsg' = << >>
    /\ snapNo' = cellNo
    /\ pcPipe' = "write1"
    /\ UNCHANGED << variant, proc, g_running, g_latestJson, mutexOwner,
                    mainVars, hPipe, lkOwns, handlerVars, pcJoiner, envVars,
                    lastPublished, tickHist, numbered, pubNo, cellNo, sentNo,
                    wfail, shutdownInWait, draining >>

\* std::string snapshot = g_latestJson; lk.unlock()
PipeCopy ==
    /\ Alive /\ pcPipe = "copy"
    /\ snapshot' = g_latestJson
    /\ snapArrival' = arrivals
    /\ skipped' = (missed = "many")
    /\ missed' = "none"
    /\ mutexOwner' = "none"
    /\ lkOwns' = FALSE
    /\ lastMsg' = << >>
    /\ snapNo' = cellNo
    /\ pcPipe' = "write1"
    /\ UNCHANGED << variant, proc, g_running, g_latestJson, mainVars, hPipe,
                    handlerVars, pcJoiner, envVars, lastPublished, tickHist,
                    numbered, pubNo, cellNo, sentNo, wfail, shutdownInWait,
                    draining >>

\* Mutant of PipeWriteSnapshot: a failed write requests the shutdown of the
\* whole program.
PipeWriteSnapshot_StopOnFailure ==
    /\ Alive /\ pcPipe = "write1"
    /\ consumer \in {"reading", "gone"}
    /\ pcPipe' = IF consumer = "reading" THEN "write2" ELSE "unlockEnd"
    /\ g_running' = (g_running /\ consumer = "reading")
    /\ wfail' = (wfail \/ consumer = "gone")
    /\ lastMsg' = IF consumer = "reading" THEN snapshot ELSE lastMsg
    /\ UNCHANGED << variant, proc, g_latestJson, mutexOwner,
                    mainVars, hPipe, lkOwns, snapshot, handlerVars, pcJoiner,
                    envVars, lastPublished, tickHist, orderHist, missed,
                    skipped, snapArrival, shutdownInWait, draining >>

\* BOOL ok = WriteFile(hPipe, snapshot.data(), ...): blocks while the client
\* is hung, fails once the client is gone
PipeWriteSnapshot ==
    /\ Alive /\ pcPipe = "write1"
    /\ consumer \in {"reading", "gone"}
    /\ pcPipe' = IF consumer = "reading" THEN "write2" ELSE "unlockEnd"
    /\ wfail' = (wfail \/ consumer = "gone")
    /\ lastMsg' = IF consumer = "reading" THEN snapshot ELSE lastMsg
    /\ UNCHANGED << variant, proc, g_running, g_latestJson, mutexOwner,
                    mainVars, hPipe, lkOwns, snapshot, handlerVars, pcJoiner,
                    envVars, lastPublished, tickHist, orderHist, missed,
                    skipped, snapArrival, shutdownInWait, draining >>

\* if (ok) ok = WriteFile(hPipe, &nl, 1, ...); if (!ok) break
PipeWriteNewline ==
    /\ Alive /\ pcPipe = "write2"
    /\ consumer \in {"reading", "gone"}
    /\ pcPipe' = IF consumer = "reading" THEN "relock" ELSE "unlockEnd"
    /\ wfail' = (wfail \/ consumer = "gone")
    /\ lastMsg' = IF consumer = "reading" THEN Append(lastMsg, NL) ELSE lastMsg
    /\ sentNo' = IF consumer = "reading" THEN snapNo ELSE sentNo
    /\ UNCHANGED << variant, proc, g_running, g_latestJson, mutexOwner,
                    mainVars, hPipe, lkOwns, snapshot, handlerVars, pcJoiner,
                    envVars, lastPublished, tickHist, numbered, pubNo, cellNo,
                    snapNo, missed, skipped, snapArrival, shutdownInWait,
                    draining >>

\* lk.lock() at the end of the loop body
PipeRelock ==
    /\ Alive /\ pcPipe = "relock"
    /\ mutexOwner = "none"
    /\ mutexOwner' = "pipe"
    /\ lkOwns' = TRUE
    /\ pcPipe' = "while"
    /\ UNCHANGED << variant, proc, g_running, g_latestJson, mainVars, hPipe,
                    snapshot, handlerVars, pcJoiner, envVars, histVars >>

\* lk.unlock() after the loop. std::unique_lock::unlock throws
\* std::system_error when the lock does not own the mutex; nothing in
\* PipeThread catches it, so the thread function exits by an exception and
\* std::terminate ends the process.
PipeUnlockEnd ==
    /\ Alive /\ pcPipe = "unlockEnd"
    /\ IF lkOwns
       THEN /\ mutexOwner' = "none"
            /\ lkOwns' = FALSE
            /\ pcPipe' = "flush"
            /\ proc' = proc
       ELSE /\ proc' = "terminate_pipe"
            /\ UNCHANGED << mutexOwner, lkOwns, pcPipe >>
    /\ UNCHANGED << variant, g_running, g_latestJson, mainVars, hPipe,
                    snapshot, handlerVars, pcJoiner, envVars, histVars >>

\* FlushFileBuffers(hPipe): returns when the client has read everything that
\* was written, or at once when the client is gone
PipeFlush ==
    /\ Alive /\ pcPipe = "flush"
    /\ consumer # "hung"
    /\ pcPipe' = "disconnect"
    /\ UNCHANGED << variant, proc, g_running, g_latestJson, mutexOwner,
                    mainVars, hPipe, lkOwns, snapshot, handlerVars, pcJoiner,
                    envVars, histVars >>

\* DisconnectNamedPipe(hPipe)
PipeDisconnect ==
    /\ Alive /\ pcPipe = "disconnect"
    /\ consumer' = "absent"
    /\ pcPipe' = "close"
    /\ UNCHANGED << variant, proc, g_running, g_latestJson, mutexOwner,
                    mainVars, hPipe, lkOwns, snapshot, handlerVars, pcJoiner,
                    arrivals, ctrlEvents, histVars >>

\* CloseHandle(hPipe), end of the for body
PipeClose ==
    /\ Alive /\ pcPipe = "close"
    /\ hPipe' = "closed"
    /\ wfail' = FALSE
    /\ pcPipe' = "for"
    /\ UNCHANGED << variant, proc, g_running, g_latestJson, mutexOwner,
                    mainVars, lkOwns, snapshot, handlerVars, pcJoiner, envVars,
                    lastPublished, lastMsg, tickHist, orderHist, missed,
                    skipped, snapArrival, shutdownInWait, draining >>

PipeNext ==
    \/ PipeForCheck \/ PipeCreate \/ PipeBackoff \/ PipeCloseFailed
    \/ PipeLock \/ PipeWhileCheck \/ PipeWait \/ PipeWake \/ PipeCheck
    \/ PipeCopy \/ PipeWriteSnapshot \/ PipeWriteNewline \/ PipeRelock
    \/ PipeUnlockEnd \/ PipeFlush \/ PipeDisconnect \/ PipeClose

-----------------------------------------------------------------------------
(* the pipe client *)

InSession == consumer \in {"reading", "hung"}

\* the connected client stops reading from the pipe
ConsumerHangs ==
    /\ Alive /\ consumer = "reading"
    /\ consumer' = "hung"
    /\ UNCHANGED << variant, proc, g_running, g_latestJson, mutexOwner,
                    mainVars, pipeVars, handlerVars, pcJoiner, arrivals,
                    ctrlEvents, histVars >>

\* a client that had stopped reading reads again
ConsumerResumes ==
    /\ Alive /\ consumer = "hung"
    /\ consumer' = "reading"
    /\ UNCHANGED << variant, proc, g_running, g_latestJson, mutexOwner,
                    mainVars, pipeVars, handlerVars, pcJoiner, arrivals,
                    ctrlEvents, histVars >>

\* the connected client closes its end of the pipe
ConsumerLeaves ==
    /\ Alive /\ InSession
    /\ consumer' = "gone"
    /\ UNCHANGED << variant, proc, g_running, g_latestJson, mutexOwner,
                    mainVars, pipeVars, handlerVars, pcJoiner, arrivals,
                    ctrlEvents, histVars >>

EnvNext ==
    \/ CtrlC \/ ConsumerConnects \/ ConnectFails \/ SpuriousWake
    \/ ConsumerHangs \/ ConsumerResumes \/ ConsumerLeaves

-----------------------------------------------------------------------------

Next ==
    \/ MainNext \/ JoinerJoin
    \/ HandlerNext \/ TimerFire
    \/ PipeNext
    \/ EnvNext

Spec == Init /\ [][Next]_vars

\* Every thread that can run is eventually scheduled; the environment
\* (clients, the user, spurious wakeups, failing system calls) owes nothing.
FairSpec ==
    /\ Spec
    /\ WF_vars(MainNext)
    /\ WF_vars(JoinerJoin)
    /\ WF_vars(HandlerNext)
    /\ WF_vars(TimerFire)
    /\ WF_vars(PipeNext)

TypeOK ==
    /\ variant \in Variants
    /\ proc \in {"running", "returned", "exit_main", "exit_timer",
                 "terminate_pipe", "terminate_main"}
    /\ g_running \in BOOLEAN
    /\ mutexOwner \in {"none", "main", "pipe"}
    /\ hPipe \in {"none", "open", "invalid", "closed"}
    /\ lkOwns \in BOOLEAN
    /\ consumer \in {"absent", "reading", "hung", "gone"}
    /\ arrivals \in 0..MaxConsumers
    /\ ctrlEvents \in 0..MaxCtrlC

-----------------------------------------------------------------------------
(* Properties *)

Writing == pcPipe \in {"write1", "write2"}

\* C1 (as claimed): a failed write never terminates the Broadcast thread or
\* the process: the session ends normally and the thread goes on to close
\* the pipe instance and loop.
C1_WriteFailureEndsSessionNormally ==
    wfail => proc # "terminate_pipe"

C3_ListeningObservesShutdown ==
    (pcPipe = "connect" /\ ~g_running) ~> (pcPipe # "connect" \/ ~Alive)

\* C4: in xbox_reader.cpp, once a control event has been delivered to
\* ConsoleCtrlHandler the process eventually terminates, wherever PipeThread
\* and main are.
C4_ReaderTerminates ==
    (variant = "reader" /\ ctrlEvents > 0) ~> ~Alive

\* C4 witness: the forced exit ended the process while PipeThread was
\* blocked in WriteFile on a hung client.
C4_Witness ==
    /\ variant = "reader" /\ proc = "exit_timer"
    /\ pcPipe = "write1" /\ consumer = "hung"

\* C5 (as claimed): in XboxControllerInput.cpp, after Ctrl+C the main loop
\* ends, pipeThr.join() returns and main returns 0, whatever PipeThread was
\* doing.
C5_XciExitsCleanly ==
    (variant = "xci" /\ ~g_running) ~> (proc = "returned")

\* C6 (as claimed): after a client disconnects mid-stream (a write fails
\* while the program is running) PipeThread comes back to the top of its
\* loop so that a new client can be served, and every message written was
\* copied from the cell during the session of the client it is written to.
C6_ReconnectGetsFreshSnapshots ==
    /\ [](Writing => snapArrival = arrivals)
    /\ ((wfail /\ g_running) ~> (pcPipe = "for" \/ ~g_running))

\* C7 (as claimed): PipeThread copies the cell for writing only if a publish
\* has occurred since its previous copy or since the session began.
C7_NoWriteWithoutPublish ==
    pcPipe = "copy" => missed # "none"

\* C8: the cell always holds the value of the most recent publish, and every
\* copy PipeThread takes equals that value (intermediate publishes are not
\* kept anywhere).
C8_CopyIsLatestPublish ==
    /\ [](g_latestJson = lastPublished)
    /\ [][(pcPipe = "copy" /\ pcPipe' = "write1") => snapshot' = lastPublished]_vars

\* C8 witness: several publishes happened since the previous copy and the
\* snapshot about to be written is the newest of them.
C8_Witness ==
    pcPipe = "write1" /\ skipped /\ snapshot = lastPublished /\ snapshot # << >>

C10_CreateFailureBacksOff ==
    /\ [](hPipe = "invalid" => pcPipe \in {"backoff", "for", "create", "done"})
    /\ [][pcPipe = "backoff" => pcPipe' \in {"backoff", "for"}]_vars
    /\ [][(pcPipe = "for" /\ pcPipe' # "for")
            => pcPipe' = IF g_running THEN "create" ELSE "done"]_vars
    /\ [](proc = "terminate_pipe" => hPipe # "invalid")

\* C10 witness: creation failed and the flag was false when the backoff
\* ended, so PipeThread returned.
C10_Witness ==
    hPipe = "invalid" /\ pcPipe = "done" /\ ~g_running

-----------------------------------------------------------------------------
(* Properties of the polled state and of the published text *)

\* main is between the poll of a tick and the end of that tick
InTick == pcMain \in {"lock", "assign", "unlock", "notify", "sleep"}

\* main has stored the snapshot of the current tick into the cell
Published == pcMain \in {"unlock", "notify", "sleep"}

\* C11: when the poll of a tick reports "not connected", the state of that
\* tick has connected = false, all fourteen buttons false and all six axes
\* zero, whatever an earlier tick reported; the text built and published on
\* that tick is the text of that state; and the tick ends by going back to
\* the loop test (the process is not ended because of it).
C11_DisconnectedTickPublishesZeroState ==
    /\ []((InTick /\ ~pollConnected) =>
            /\ ~state.connected
            /\ \A b \in ButtonNames : ~state.buttons[b]
            /\ state.triggers.LT = Ratio(0, 1) /\ state.triggers.RT = Ratio(0, 1)
            /\ state.sticks.LX = Ratio(0, 1) /\ state.sticks.LY = Ratio(0, 1)
            /\ state.sticks.RX = Ratio(0, 1) /\ state.sticks.RY = Ratio(0, 1)
            /\ js = JsonText(variant, ZeroState)
            /\ (Published => g_latestJson = JsonText(variant, ZeroState)))
    /\ [][(pcMain = "sleep" /\ ~pollConnected /\ pcMain' # pcMain)
            => (pcMain' = "loop" /\ proc' = proc)]_vars

\* C11 witness: a disconnected tick has published its all-zero snapshot
\* while PipeThread still holds the snapshot of an earlier connected tick.
C11_Witness ==
    /\ pcMain = "sleep" /\ ~pollConnected /\ tickStores = 1
    /\ g_latestJson = JsonText(variant, ZeroState)
    /\ snapshot = JsonText(variant, PadValues(TRUE, BusyPad))
    /\ snapshot # g_latestJson

\* C12: every tick stores its snapshot into the cell exactly once and calls
\* notify_all exactly once, whether or not the text equals the one the cell
\* held: before the assignment the tick has made no store and no
\* notification, between the assignment and the notification one store and
\* no notification, and when the tick sleeps exactly one of each, the cell
\* holding the text of this tick.
C12_EveryTickPublishesOnce ==
    /\ (pcMain \in {"poll", "lock", "assign"}
          => tickStores = 0 /\ tickNotifies = 0)
    /\ (pcMain \in {"unlock", "notify"}
          => tickStores = 1 /\ tickNotifies = 0 /\ g_latestJson = js)
    /\ (pcMain = "sleep"
          => tickStores = 1 /\ tickNotifies = 1 /\ g_latestJson = js)

\* C12 witness: a tick has stored and notified although its text equals the
\* one it replaced.  PipeThread copied the cell during the current session
\* (snapArrival = arrivals), exactly one publish followed that copy
\* (missed = "one"), namely the one of this tick, and the cell still equals
\* the copy.
C12_Witness ==
    /\ pcMain = "sleep" /\ tickStores = 1 /\ tickNotifies = 1
    /\ arrivals > 0 /\ snapArrival = arrivals /\ missed = "one"
    /\ snapshot # << >> /\ g_latestJson = snapshot

\* PipeThread has passed both WriteFile calls of a message
MessageWritten == pcPipe = "relock"

\* C13 (as claimed): the bytes written for one message are the snapshot
\* followed by a line feed, and that line feed is the only one among them
\* and their last byte, in both programs.
C13_OneNewlinePerMessage ==
    MessageWritten =>
        /\ lastMsg = Append(snapshot, NL)
        /\ lastMsg[Len(lastMsg)] = NL
        /\ CountNL(lastMsg) = 1

-----------------------------------------------------------------------------
(* normThumb over the whole range of SHORT *)

\* any raw stick value, not yet normalised
NormInit ==
    /\ InitRest
    /\ pcMain = "norm"
    /\ raw \in ShortMin..ShortMax
    /\ numbered = FALSE

\* state.sticks.LX = normThumb(pad.sThumbLX)
NormApply ==
    /\ pcMain = "norm"
    /\ state' = [state EXCEPT !.sticks.LX = normThumb(raw)]
    /\ pcMain' = "normed"
    /\ UNCHANGED << variant, proc, g_running, g_latestJson, mutexOwner, js,
                    raw, pollConnected, pipeVars, handlerVars, pcJoiner,
                    envVars, histVars >>

NormSpec == NormInit /\ [][NormApply]_vars

\* C14: normThumb maps 32767 to exactly +1, -32768 to exactly -1 and 0 to
\* exactly 0, and for every raw value of the SHORT range the result is the
\* exact ratio raw/32767 (raw >= 0) or raw/32768 (raw < 0) and lies in
\* [-1, 1].
C14_NormThumbExactEnds ==
    pcMain = "normed" =>
        LET r == state.sticks.LX
        IN  /\ r[2] > 0
            /\ r[1] * (IF raw >= 0 THEN 32767 ELSE 32768) = raw * r[2]
            /\ -r[2] <= r[1] /\ r[1] <= r[2]
            /\ (raw = 32767 => r = << 1, 1 >>)
            /\ (raw = -32768 => r = << -1, 1 >>)
            /\ (raw = 0 => r = << 0, 1 >>)

\* C14 witness: the most negative raw value has been normalised.
C14_Witness ==
    pcMain = "normed" /\ raw = ShortMin /\ state.sticks.LX = << -1, 1 >>

-----------------------------------------------------------------------------
(* Locking *)

\* C15 (as claimed): PipeThread calls unlock on lk (after the copy, line 365,
\* and after the streaming loop, line 380) and waits on it only while lk
\* owns g_jsonMutex, and constructs or locks it (lines 359 and 378) only
\* while it does not, on every path including both exits of the loop.
C15_LockDiscipline ==
    /\ (pcPipe \in {"copy", "unlockEnd", "wait"} => lkOwns)
    /\ (pcPipe \in {"lock", "relock"} => ~lkOwns)
    /\ (lkOwns = (mutexOwner = "pipe" \/ pcPipe \in {"cvBlocked", "cvWoken"}))

-----------------------------------------------------------------------------
(* Shutdown *)

\* main has left the acquisition loop: it publishes no more
MainStopped ==
    pcMain \in {"store", "notify2", "spawnJoiner", "finish", "join", "return",
                "end"}

\* C16 (as claimed): no lost wake-up on shutdown.  Whenever PipeThread is
\* blocked in g_jsonCv.wait with a client connected while g_running is false
\* and main has left the acquisition loop, it eventually leaves the wait
\* (the end of the whole process is counted as leaving).
C16_NoLostWakeup ==
    (pcPipe = "cvBlocked" /\ ~g_running /\ MainStopped)
        ~> (pcPipe # "cvBlocked" \/ ~Alive)

\* C17: the assignment to g_latestJson by main and the copy of g_latestJson
\* by PipeThread are each made only by the owner of g_jsonMutex, so the two
\* never run at the same time.
C17_CellAccessMutuallyExclusive ==
    /\ (pcMain = "assign" => mutexOwner = "main")
    /\ (pcPipe = "copy" => mutexOwner = "pipe" /\ lkOwns)
    /\ ~(pcMain = "assign" /\ pcPipe = "copy")

\* C17 witness: main is inside its critical section, about to assign, while
\* PipeThread has been notified and contends for the mutex before its copy.
C17_Witness ==
    /\ pcMain = "assign" /\ mutexOwner = "main"
    /\ pcPipe = "cvWoken" /\ g_latestJson # << >> /\ js # g_latestJson

\* PipeThread is at or inside a call that does I/O or sleeps: CreateNamedPipeA,
\* the backoff sleep, ConnectNamedPipe, WriteFile, FlushFileBuffers,
\* DisconnectNamedPipe, CloseHandle
PipeInIO ==
    pcPipe \in {"create", "backoff", "connect", "closeFailed", "write1",
                "write2", "flush", "disconnect", "close"}

\* main is polling the device, writing the console or sleeping
MainInIO == pcMain \in {"poll", "sleep"}

\* C18: g_jsonMutex is never held across I/O.  PipeThread does not own it
\* while it is in a pipe call or in the backoff sleep, main does not own it
\* while it polls, writes the console or sleeps; so whenever main wants to
\* publish while PipeThread is in such a call (a write to a hung client
\* included) the mutex is free.
C18_MutexNotHeldAcrossIO ==
    /\ (PipeInIO => mutexOwner # "pipe" /\ ~lkOwns)
    /\ (MainInIO => mutexOwner # "main")
    /\ ((PipeInIO /\ pcMain = "lock") => mutexOwner = "none")

\* C18 witness: main is inside its critical section publishing a new text
\* while PipeThread is blocked in WriteFile on a client that stopped reading.
C18_Witness ==
    /\ Writing /\ consumer = "hung"
    /\ pcMain = "assign" /\ mutexOwner = "main" /\ js # g_latestJson

\* C19: main leaves the acquisition loop only by reading g_running as false
\* at the loop test and starts a tick only by reading it as true; the flag
\* never becomes true again; so after the flag has become false at most the
\* tick in progress publishes, and then main leaves the loop (unless the
\* process ends first).
C19_LoopStopsOnFlag ==
    /\ [][(pcMain = "loop" /\ pcMain' # "loop")
            => ((pcMain' = "poll") <=> g_running)]_vars
    /\ [][~g_running => ~g_running']_vars
    /\ [](MainStopped => ~g_running)
    /\ [](pubsAfterStop # "many")
    /\ (~g_running ~> (MainStopped \/ ~Alive))

\* C19 witness: the flag became false during a tick, that tick has published
\* and main is back at the loop test, which it will now leave.
C19_Witness ==
    pcMain = "loop" /\ ~g_running /\ pubsAfterStop = "one"

\* C20 (as claimed): in xbox_reader.cpp main reaches its return (where the
\* pipeThr object is destroyed) only after PipeThread has finished and the
\* detached joiner has completed pipeThr.join().
C20_ReturnOnlyAfterJoin ==
    (variant = "reader" /\ pcMain = "end"
        /\ proc \in {"returned", "terminate_main"})
    => (pcPipe = "done" /\ pcJoiner = "done")

-----------------------------------------------------------------------------
(* Pipe handle lifecycle *)

\* PipeThread has ended: it returned, or the process was terminated from it
PipeEnded == pcPipe = "done" \/ proc = "terminate_pipe"

\* positions at which PipeThread passes hPipe to a pipe call or serves a client
PipeUsesHandle ==
    pcPipe \in {"connect", "closeFailed", "lock", "while", "wait", "cvBlocked",
                "cvWoken", "check", "copy", "write1", "write2", "relock",
                "unlockEnd", "flush", "disconnect", "close"}

\* C21 (as claimed): PipeThread owns at most one open pipe instance and
\* serves a client only through it; a handle is passed to ConnectNamedPipe,
\* WriteFile, FlushFileBuffers, DisconnectNamedPipe or CloseHandle only while
\* it is open (so an invalid handle is never used or closed and no handle is
\* closed twice); an open handle is closed before another instance is
\* created and before the thread ends, on every path: accept failure, write
\* failure and shutdown.
C21_HandleLifecycle ==
    /\ (PipeUsesHandle => hPipe = "open")
    /\ (consumer # "absent" => hPipe = "open")
    /\ (pcPipe = "create" => hPipe # "open")
    /\ (PipeEnded => hPipe # "open")

-----------------------------------------------------------------------------
(* Order of the messages *)

\* the program with its publishes numbered 1, 2, 3, ... in the order main
\* makes them
OrderInit ==
    /\ InitRest
    /\ pcMain = "loop"
    /\ raw = 0
    /\ numbered = TRUE

OrderSpec == OrderInit /\ [][Next]_vars

\* C22: the publish numbers of the messages written to the pipe never
\* decrease, within a session and across sessions: the number of the last
\* message written only grows, the snapshot being written is never older
\* than the last message written, and no snapshot is newer than the cell.
C22_MessagesInPublishOrder ==
    /\ [][sentNo' >= sentNo]_vars
    /\ [][snapNo' >= snapNo]_vars
    /\ [](sentNo <= snapNo /\ snapNo <= cellNo /\ cellNo = pubNo)

\* C22 witness: the client has received the message of publish 1 and is now
\* being sent the one of publish 3; publish 2 was overwritten unsent.
C22_Witness ==
    /\ pcPipe = "write2" /\ consumer = "reading"
    /\ sentNo = 1 /\ snapNo = 3 /\ skipped

-----------------------------------------------------------------------------
(* Progress of the stream *)

\* g_jsonMutex is free again and again for long stretches (main sleeps for
\* the tick interval in every iteration, PipeThread holds it only around the
\* wait and the copy), so a thread that keeps trying to acquire it gets it.
PipeAcquire == PipeLock \/ PipeWake \/ PipeRelock

LiveSpec == FairSpec /\ SF_vars(PipeAcquire) /\ SF_vars(MainLock)

\* C23: in every fair behaviour in which from some point on the running flag
\* stays true, the process keeps running and the client stays connected and
\* keeps reading (so every write succeeds), PipeThread completes a message
\* again and again.
C23_LiveFeedProgress ==
    <>[](g_running /\ Alive /\ consumer = "reading") => []<>MessageWritten

\* C23 witness: PipeThread has completed a message while the flag is true
\* and the client reads; main published again during the write, so the
\* notification of that publish found PipeThread busy.
C23_Witness ==
    /\ MessageWritten /\ g_running /\ consumer = "reading"
    /\ snapArrival = arrivals /\ missed # "none" /\ pcMain = "sleep"

-----------------------------------------------------------------------------
(* The running flag *)

\* C24: g_running starts true and is true as long as no control event has
\* been delivered, changes only from true to false, and that change is made
\* only by ConsoleCtrlHandler: every step that changes the
\* flag is the handler's store; main reaches its own store after the loop
\* only with the flag already false, so that store changes nothing, and no
\* step of PipeThread changes it.
C24_RunningFlagMonotonic ==
    /\ [](ctrlEvents = 0 => g_running)
    /\ [][g_running' # g_running
            => (g_running /\ ~g_running'
                /\ pcHandler = "store" /\ pcHandler' # "store"
                /\ pcMain' = pcMain /\ pcPipe' = pcPipe)]_vars
    /\ [](pcMain = "store" => ~g_running)

\* C24 witness: xbox_reader.cpp's main has executed g_running.store(false)
\* after the loop; the flag was false before and is false after.
C24_Witness ==
    variant = "reader" /\ pcMain = "notify2" /\ ~g_running /\ ctrlEvents > 0

-----------------------------------------------------------------------------
(* Content of the cell *)

\* the states a poll can produce
PolledStates == {ZeroState} \cup { PadValues(TRUE, pad) : pad \in PadSamples }

\* the complete snapshots of the running program
Snapshots == { JsonText(variant, st) : st \in PolledStates }

\* C25 (as claimed): the cell holds a complete snapshot in every reachable
\* state, the disconnected one until the first publish, and so does every
\* text PipeThread has copied from it for writing.
C25_CellAlwaysSnapshot ==
    /\ g_latestJson \in Snapshots
    /\ (lastPublished = << >> => g_latestJson = JsonText(variant, ZeroState))
    /\ (pcPipe \in {"write1", "write2", "relock"} => snapshot \in Snapshots)

====
